---- MODULE Spec2Model ----
(***************************************************************************)
(* Note identity and referential integrity of lumen: saving, renaming and  *)
(* moving notes (hooks/note.ts), declaring virtual folders                 *)
(* (hooks/create-new-note.ts).                                             *)
(*                                                                         *)
(* A string is a sequence of one-character strings, so that split, join,   *)
(* trim and the regular-expression replacements are computed character by  *)
(* character.  The suffix ".md" of a storage key is one element.           *)
(***************************************************************************)
EXTENDS Integers, Sequences, FiniteSets, TLC

VARIABLES
    markdownFiles,   \* markdownFilesAtom: storage key -> content
    virtualFolders,  \* virtualFoldersAtom: sequence of folder paths
    call,            \* the handler that ran last, with its arguments
    result,          \* what that handler returned
    sent,            \* the events that handler sent to the state machine, in order
    snapshot,        \* markdownFiles as that handler read it
    prevFolders,     \* virtualFolders before that handler ran
    queued,          \* moveMany: the moves that handler queued
    effects,         \* what that handler did to its collaborators, in order
    nOps,            \* number of handlers run so far
    arg,             \* the argument of a function evaluated on its own
    ret              \* what that function returned

vars == <<markdownFiles, virtualFolders, call, result, sent, snapshot,
          prevFolders, queued, effects, nOps, arg, ret>>

----------------------------------------------------------------------------
(* Bounds *)

MaxOps == 2        \* handlers run in one behaviour

MaxSlugLen == 4    \* characters of a text handed to toSlug

MaxNotes == 3      \* notes of a result set handed to the tag aggregator

----------------------------------------------------------------------------
(* Strings *)

EmptyStr == << >>

MD == ".md"

Whitespace == {" "}

Lowercase == {"a", "b", "x", "y"}

Uppercase == {"A", "B", "X", "Y"}

Digits == {"0", "1"}

toLowerCase(c) ==
    CASE c = "A" -> "a"
      [] c = "B" -> "b"
      [] c = "X" -> "x"
      [] c = "Y" -> "y"
      [] OTHER -> c

RECURSIVE split(_, _)
\* String.prototype.split(sep) for a one-character separator
split(s, sep) ==
    LET at == { i \in DOMAIN s : s[i] = sep }
    IN  IF at = {} THEN << s >>
        ELSE LET k == CHOOSE i \in at : \A j \in at : i <= j
             IN  << SubSeq(s, 1, k - 1) >> \o split(SubSeq(s, k + 1, Len(s)), sep)

RECURSIVE join(_, _)
\* Array.prototype.join(sep)
join(parts, sep) ==
    IF Len(parts) = 0 THEN EmptyStr
    ELSE IF Len(parts) = 1 THEN parts[1]
    ELSE parts[1] \o << sep >> \o join(Tail(parts), sep)

startsWith(s, p) ==
    Len(p) <= Len(s) /\ SubSeq(s, 1, Len(p)) = p

\* `${id}.md`
Filepath(id) == id \o << MD >>

includes(seq, x) == \E i \in DOMAIN seq : seq[i] = x

RECURSIVE filter(_, _)
\* Array.prototype.filter keeping the elements outside the set drop
filter(seq, drop) ==
    IF seq = << >> THEN << >>
    ELSE IF seq[1] \in drop THEN filter(Tail(seq), drop)
    ELSE << seq[1] >> \o filter(Tail(seq), drop)

Range(seq) == { seq[i] : i \in DOMAIN seq }

----------------------------------------------------------------------------
(* Slug / ID engine *)

RECURSIVE trimStart(_)
trimStart(s) ==
    IF s # << >> /\ s[1] \in Whitespace THEN trimStart(Tail(s)) ELSE s

RECURSIVE trimEnd(_)
trimEnd(s) ==
    IF s # << >> /\ s[Len(s)] \in Whitespace
    THEN trimEnd(SubSeq(s, 1, Len(s) - 1)) ELSE s

trim(s) == trimEnd(trimStart(s))

RECURSIVE collapseRuns(_, _, _)
\* replace(/c+/g, to) for the character class cls: every maximal run of
\* characters of cls becomes the single character to
collapseRuns(s, cls, to) ==
    IF s = << >> THEN << >>
    ELSE IF s[1] \in cls
         THEN LET rest == collapseRuns(Tail(s), cls, to)
              IN  IF Len(s) > 1 /\ s[2] \in cls THEN rest ELSE << to >> \o rest
         ELSE << s[1] >> \o collapseRuns(Tail(s), cls, to)

\* Mutant of stripEdgeDash: the dashes at the edges stay
stripEdgeDashKept(s) == s

\* replace(/^-|-$/g, ""): one leading dash and one trailing dash
stripEdgeDash(s) ==
    LET a == IF s # << >> /\ s[1] = "-" THEN Tail(s) ELSE s
    IN  IF a # << >> /\ a[Len(a)] = "-" THEN SubSeq(a, 1, Len(a) - 1) ELSE a

slugifySegment(segment) ==
    LET t == trim(segment)
        l == [i \in DOMAIN t |-> toLowerCase(t[i])]
        w == collapseRuns(l, Whitespace, "-")
        d == collapseRuns(w, {"-"}, "-")
    IN  stripEdgeDash(d)

RECURSIVE keepNonEmpty(_)
\* filter(Boolean) on an array of strings
keepNonEmpty(parts) ==
    IF parts = << >> THEN << >>
    ELSE IF parts[1] = EmptyStr THEN keepNonEmpty(Tail(parts))
    ELSE << parts[1] >> \o keepNonEmpty(Tail(parts))

toSlug(trimmed) ==
    LET pieces == split(trimmed, "/")
        slugSegments == keepNonEmpty([i \in DOMAIN pieces |-> slugifySegment(pieces[i])])
    IN  join(slugSegments, "/")

\* A segment of the NoteId grammar: lowercase letters, digits and internal
\* single dashes
validSegment(seg) ==
    /\ seg # EmptyStr
    /\ \A i \in DOMAIN seg : seg[i] \in Lowercase \cup Digits \cup {"-"}
    /\ seg[1] # "-"
    /\ seg[Len(seg)] # "-"
    /\ \A i \in 1..(Len(seg) - 1) : ~(seg[i] = "-" /\ seg[i + 1] = "-")

isValidNoteId(id) ==
    LET segs == split(id, "/")
    IN  \A i \in DOMAIN segs : validSegment(segs[i])

\* Mutant of getFolderPrefixes: the note id itself counts as a prefix
getFolderPrefixesInclusive(noteId) ==
    LET parts == split(noteId, "/")
    IN  [i \in 1..Len(parts) |-> join(SubSeq(parts, 1, i), "/")]

\* All folder path prefixes of a note id ("a/b/c" -> <<"a", "a/b">>)
getFolderPrefixes(noteId) ==
    LET parts == split(noteId, "/")
    IN  IF Len(parts) <= 1 THEN << >>
        ELSE [i \in 1..(Len(parts) - 1) |-> join(SubSeq(parts, 1, i), "/")]

----------------------------------------------------------------------------
(* Note content and the wikilink rewriter *)

\* A content is a sequence of tokens; the empty sequence is the empty string.
\* A link token is a reference [[id]] or [[id|alias]]; a text token is any
\* other text; an fm token is the frontmatter block.
Link(id, alias) == [kind |-> "link", id |-> id, alias |-> alias]

Text(t) == [kind |-> "text", id |-> EmptyStr, alias |-> t]

Frontmatter == [kind |-> "fm", id |-> EmptyStr, alias |-> "updated_at"]

\* A frontmatter block that declares a gist_id
GistFrontmatter == [kind |-> "fm", id |-> EmptyStr, alias |-> "gist_id"]

\* typeof parseFrontmatter(content).frontmatter.gist_id === "string"
hasGistId(content) == content # << >> /\ content[1] = GistFrontmatter

\* The note ids a content refers to
Refs(content) ==
    { content[i].id : i \in { j \in DOMAIN content : content[j].kind = "link" } }

\* utils/update-wikilinks: every reference to oldId names newId instead, the
\* alias and everything else kept
updateWikilinks(fileContent, oldId, newId) ==
    [i \in DOMAIN fileContent |->
        IF fileContent[i].kind = "link" /\ fileContent[i].id = oldId
        THEN [fileContent[i] EXCEPT !.id = newId]
        ELSE fileContent[i]]

\* utils/frontmatter: the content with its updated_at property set
updateFrontmatterValue(content) ==
    IF content # << >> /\ content[1].kind = "fm"
    THEN content
    ELSE << Frontmatter >> \o content

\* JavaScript truthiness of a string
Truthy(str) == str # EmptyStr

----------------------------------------------------------------------------
(* The file set and mutation batches *)

\* An entry of a WRITE_FILES batch: content, or null (a tombstone)
Write(content) == [del |-> FALSE, content |-> content]

Tombstone == [del |-> TRUE, content |-> << >>]

EmptyBatch == [k \in {} |-> Tombstone]

\* obj[key] = value on a Record<string, string | null>
Put(batch, key, value) ==
    [k \in DOMAIN batch \cup {key} |-> IF k = key THEN value ELSE batch[k]]

\* The persistence collaborator applying one batch atomically
ApplyBatch(files, batch) ==
    LET keep == (DOMAIN files \ { k \in DOMAIN batch : batch[k].del })
                    \cup { k \in DOMAIN batch : ~batch[k].del }
    IN  [k \in keep |-> IF k \in DOMAIN batch THEN batch[k].content ELSE files[k]]

WriteFiles(batch) == [type |-> "WRITE_FILES", markdownFiles |-> batch]

\* { type: "DELETE_FILE", filepath }: the file at filepath is removed
DeleteFile(filepath) ==
    [type |-> "DELETE_FILE", markdownFiles |-> Put(EmptyBatch, filepath, Tombstone)]

\* The types of the events sent, in order
typesOf(events) == [i \in DOMAIN events |-> events[i].type]

RECURSIVE ApplyEvents(_, _)
ApplyEvents(files, events) ==
    IF events = << >> THEN files
    ELSE ApplyEvents(ApplyBatch(files, events[1].markdownFiles), Tail(events))

----------------------------------------------------------------------------
(* useRenameNote *)

Success == "success"

\* Mutant of renameReason: the occupied destination is looked at before the
\* validity of the new name
renameReasonDuplicateFirst(files, oldName, newName) ==
    LET oldFilepath == Filepath(oldName)
        newFilepath == Filepath(newName)
    IN  IF ~Truthy(oldName) \/ ~Truthy(newName) \/ oldName = newName
        THEN "no-op"
        ELSE IF newFilepath # oldFilepath
                /\ newFilepath \in DOMAIN files
                /\ Truthy(files[newFilepath])
        THEN "duplicate"
        ELSE IF ~isValidNoteId(newName)
        THEN "invalid"
        ELSE Success

\* The guards of rename, in the order of the code
renameReason(files, oldName, newName) ==
    LET oldFilepath == Filepath(oldName)
        newFilepath == Filepath(newName)
    IN  IF ~Truthy(oldName) \/ ~Truthy(newName) \/ oldName = newName
        THEN "no-op"
        ELSE IF ~isValidNoteId(newName)
        THEN "invalid"
        ELSE IF newFilepath # oldFilepath
                /\ newFilepath \in DOMAIN files
                /\ Truthy(files[newFilepath])
        THEN "duplicate"
        ELSE Success

\* The wikilink updates of all other notes: only the files that changed
renameRewrites(files, oldName, newName) ==
    LET others  == DOMAIN files \ { Filepath(oldName) }
        changed == { k \in others :
                        updateWikilinks(files[k], oldName, newName) # files[k] }
    IN  [k \in changed |-> Write(updateWikilinks(files[k], oldName, newName))]

\* Mutant of renameBatch: the old path is never marked for deletion
renameBatchNoTombstone(files, oldName, newName, content) ==
    Put(renameRewrites(files, oldName, newName), Filepath(newName),
        Write(updateWikilinks(content, oldName, newName)))

\* updatedMarkdownFiles of a rename that passed the guards
renameBatch(files, oldName, newName, content) ==
    LET oldFilepath   == Filepath(oldName)
        newFilepath   == Filepath(newName)
        oldFileExists == oldFilepath \in DOMAIN files
        withNew       == Put(renameRewrites(files, oldName, newName), newFilepath,
                             Write(updateWikilinks(content, oldName, newName)))
    IN  IF oldFileExists THEN Put(withNew, oldFilepath, Tombstone) ELSE withNew

\* Mutant of renameEvents: the duplicate guard does not return
renameEventsOnDuplicate(reason, files, oldName, newName, content) ==
    IF reason \in { "no-op", "invalid" } THEN << >>
    ELSE << WriteFiles(renameBatch(files, oldName, newName, content)) >>

\* The events a rename sends, reason being what the guards found
renameEvents(reason, files, oldName, newName, content) ==
    IF reason # Success THEN << >>
    ELSE LET updatedMarkdownFiles == renameBatch(files, oldName, newName, content)
         IN  IF Cardinality(DOMAIN updatedMarkdownFiles) > 0
             THEN << WriteFiles(updatedMarkdownFiles) >>
             ELSE << >>

\* The virtual folders after a rename: the handler has no setter for them
renameFolders(folders, oldName, newName) == folders

----------------------------------------------------------------------------
(* useMoveNotesToFolder *)

Last(seq) == seq[Len(seq)]

basename(oldId) ==
    IF includes(oldId, "/") THEN Last(split(oldId, "/")) ELSE oldId

moveNewId(oldId, targetFolder) ==
    IF Truthy(targetFolder)
    THEN targetFolder \o << "/" >> \o basename(oldId)
    ELSE basename(oldId)

\* Mutant of classify: the no-op test comes before the lookup of the source
classifyNoOpFirst(files, oldId, targetFolder) ==
    LET oldFilepath == Filepath(oldId)
        newId       == moveNewId(oldId, targetFolder)
        newFilepath == Filepath(newId)
    IN  IF newId = oldId THEN "omitted"
        ELSE IF oldFilepath \notin DOMAIN files THEN "skipped"
        ELSE IF ~isValidNoteId(newId) THEN "skipped"
        ELSE IF newFilepath \in DOMAIN files /\ newFilepath # oldFilepath
        THEN "skipped"
        ELSE "queued"

\* One iteration of the classifying loop
classify(files, oldId, targetFolder) ==
    LET oldFilepath == Filepath(oldId)
        newId       == moveNewId(oldId, targetFolder)
        newFilepath == Filepath(newId)
    IN  IF oldFilepath \notin DOMAIN files THEN "skipped"
        ELSE IF newId = oldId THEN "omitted"
        ELSE IF ~isValidNoteId(newId) THEN "skipped"
        ELSE IF newFilepath \in DOMAIN files /\ newFilepath # oldFilepath
        THEN "skipped"
        ELSE "queued"

RECURSIVE movedOf(_, _, _)
\* The moved array after the loop over noteIds
movedOf(files, noteIds, targetFolder) ==
    IF noteIds = << >> THEN << >>
    ELSE LET oldId == noteIds[1]
             rest  == movedOf(files, Tail(noteIds), targetFolder)
         IN  IF classify(files, oldId, targetFolder) = "queued"
             THEN << [oldId   |-> oldId,
                      newId   |-> moveNewId(oldId, targetFolder),
                      content |-> files[Filepath(oldId)]] >> \o rest
             ELSE rest

RECURSIVE skippedOfPresent(_, _, _)
\* Mutant of skippedOf: an absent source is passed over without being pushed
skippedOfPresent(files, noteIds, targetFolder) ==
    IF noteIds = << >> THEN << >>
    ELSE LET oldId == noteIds[1]
             rest  == skippedOfPresent(files, Tail(noteIds), targetFolder)
         IN  IF /\ classify(files, oldId, targetFolder) = "skipped"
                /\ Filepath(oldId) \in DOMAIN files
             THEN << oldId >> \o rest
             ELSE rest

RECURSIVE skippedOf(_, _, _)
\* The skipped array after the loop over noteIds
skippedOf(files, noteIds, targetFolder) ==
    IF noteIds = << >> THEN << >>
    ELSE LET oldId == noteIds[1]
             rest  == skippedOf(files, Tail(noteIds), targetFolder)
         IN  IF classify(files, oldId, targetFolder) = "skipped"
             THEN << oldId >> \o rest
             ELSE rest

RECURSIVE rewriteAll(_, _)
\* The inner loop: one rewrite per queued move, in queued order
rewriteAll(content, moved) ==
    IF moved = << >> THEN content
    ELSE rewriteAll(updateWikilinks(content, moved[1].oldId, moved[1].newId),
                    Tail(moved))

\* The first loop: every file of the snapshot whose content changed
moveRewrites(files, moved) ==
    LET changed == { k \in DOMAIN files : rewriteAll(files[k], moved) # files[k] }
    IN  [k \in changed |-> Write(rewriteAll(files[k], moved))]

\* What one queued move writes for the relocated file
relocated(m) == updateWikilinks(m.content, m.oldId, m.newId)

RECURSIVE moveWrites(_, _)
\* The second loop: the relocated file under the new key, null under the old
moveWrites(batch, moved) ==
    IF moved = << >> THEN batch
    ELSE LET m == moved[1]
             a == Put(batch, Filepath(m.newId), Write(relocated(m)))
             b == Put(a, Filepath(m.oldId), Tombstone)
         IN  moveWrites(b, Tail(moved))

\* Mutant of moveBatch: the rewritten contents are recorded after the second
\* loop and replace what it wrote
moveBatchRewritesLast(files, moved) ==
    LET written   == moveWrites(EmptyBatch, moved)
        rewritten == moveRewrites(files, moved)
    IN  [k \in DOMAIN written \cup DOMAIN rewritten |->
            IF k \in DOMAIN rewritten THEN rewritten[k] ELSE written[k]]

\* updatedMarkdownFiles of a move with a non-empty queue
moveBatch(files, moved) == moveWrites(moveRewrites(files, moved), moved)

\* Mutant of moveEvents: no early return on an empty queue
moveEventsAlways(files, moved) == << WriteFiles(moveBatch(files, moved)) >>

\* The events a move sends
moveEvents(files, moved) ==
    IF Len(moved) = 0 THEN << >> ELSE << WriteFiles(moveBatch(files, moved)) >>

\* folderPrefixesToRemove
moveFolderPrefixes(moved) ==
    UNION { Range(getFolderPrefixes(moved[i].oldId)) : i \in DOMAIN moved }

\* The virtual folders after a move
moveFolders(folders, moved) ==
    IF Len(moved) = 0 THEN folders
    ELSE IF Cardinality(moveFolderPrefixes(moved)) > 0
    THEN filter(folders, moveFolderPrefixes(moved))
    ELSE folders

----------------------------------------------------------------------------
(* useSaveNote *)

saveFolders(folders, id) ==
    LET folderPrefixes == getFolderPrefixes(id)
    IN  IF Len(folderPrefixes) > 0 THEN filter(folders, Range(folderPrefixes))
        ELSE folders

saveEvents(id, content) ==
    << WriteFiles(Put(EmptyBatch, Filepath(id), Write(updateFrontmatterValue(content)))) >>

\* Whether saveNote calls updateGist
saveMirrors(content, signedIn) ==
    hasGistId(updateFrontmatterValue(content)) /\ signedIn

\* What saveNote does, in order: the send, then the awaited updateGist
saveEffects(content, signedIn) ==
    << "WRITE_FILES" >> \o
        (IF saveMirrors(content, signedIn) THEN << "updateGist" >> ELSE << >>)

----------------------------------------------------------------------------
(* useDeleteNote *)

\* Whether deleteNote calls deleteGist: the note exists, has a gist id, and
\* the user has a token
deleteMirrors(files, id, signedIn) ==
    /\ Filepath(id) \in DOMAIN files
    /\ hasGistId(files[Filepath(id)])
    /\ signedIn

\* What deleteNote does, in order: the awaited deleteGist, and the send when
\* the await returns
deleteEffects(files, id, signedIn, mirrorOk) ==
    IF deleteMirrors(files, id, signedIn)
    THEN IF mirrorOk THEN << "deleteGist", "DELETE_FILE" >> ELSE << "deleteGist" >>
    ELSE << "DELETE_FILE" >>

deleteEvents(files, id, signedIn, mirrorOk) ==
    IF includes(deleteEffects(files, id, signedIn, mirrorOk), "DELETE_FILE")
    THEN << DeleteFile(Filepath(id)) >>
    ELSE << >>

----------------------------------------------------------------------------
(* useCreateNewFolder *)

\* The rank of a character in the collation order of localeCompare
CharOrder == << "-", "/", "0", "1", "a", "b", "x", "y" >>

rank(c) == CHOOSE i \in DOMAIN CharOrder : CharOrder[i] = c

RECURSIVE localeCompareLess(_, _)
\* a.localeCompare(b) < 0
localeCompareLess(a, b) ==
    IF b = << >> THEN FALSE
    ELSE IF a = << >> THEN TRUE
    ELSE IF a[1] = b[1] THEN localeCompareLess(Tail(a), Tail(b))
    ELSE rank(a[1]) < rank(b[1])

RECURSIVE insertSorted(_, _)
insertSorted(seq, x) ==
    IF seq = << >> THEN << x >>
    ELSE IF localeCompareLess(x, seq[1]) THEN << x >> \o seq
    ELSE << seq[1] >> \o insertSorted(Tail(seq), x)

RECURSIVE sortPaths(_)
\* Array.prototype.sort((a, b) => a.localeCompare(b))
sortPaths(seq) ==
    IF seq = << >> THEN << >>
    ELSE insertSorted(sortPaths(SubSeq(seq, 1, Len(seq) - 1)), Last(seq))

\* The folder path the handler computes, or NoFolder when it returns early
NoFolder == << "!" >>

folderPathOf(currentFolder, userInput) ==
    LET trimmed == trim(userInput)
        slug    == toSlug(trimmed)
        path    == IF Truthy(currentFolder)
                   THEN currentFolder \o << "/" >> \o slug ELSE slug
    IN  IF ~Truthy(trimmed) THEN NoFolder
        ELSE IF ~Truthy(slug) THEN NoFolder
        ELSE IF ~isValidNoteId(path) THEN NoFolder
        ELSE path

\* generateNoteId(): a fresh identifier, used when the slug is empty
generateNoteId == << "1" >>

\* The note ID useCreateNewNote navigates to, or NoNote when it returns early
NoNote == << "?" >>

newNoteIdOf(currentFolder, userInput) ==
    LET trimmed == trim(userInput)
        slug    == toSlug(trimmed)
        baseId  == IF Truthy(slug) THEN slug ELSE generateNoteId
        noteId  == IF Truthy(currentFolder)
                   THEN currentFolder \o << "/" >> \o baseId ELSE baseId
    IN  IF ~Truthy(trimmed) THEN NoNote
        ELSE IF ~isValidNoteId(noteId) THEN NoNote
        ELSE noteId

\* Mutant of declareFolders: the new path goes to the end, unsorted
declareFoldersAppended(folders, folderPath) ==
    IF includes(folders, folderPath) THEN folders ELSE Append(folders, folderPath)

declareFolders(folders, folderPath) ==
    IF includes(folders, folderPath) THEN folders
    ELSE sortPaths(Append(folders, folderPath))

----------------------------------------------------------------------------
(* Inputs *)

s_x == << "x" >>

s_y == << "y" >>

s_a == << "a" >>

s_b == << "b" >>

s_ax == << "a", "/", "x" >>

s_ay == << "a", "/", "y" >>

s_bx == << "b", "/", "x" >>

s_by == << "b", "/", "y" >>

s_X == << "X" >>

\* File sets a repository can hold when the application starts
InitialFiles ==
    { [k \in {} |-> << >>],
      (Filepath(s_ax) :> << Link(s_ay, "") >>)
          @@ (Filepath(s_ay) :> << Text("t"), Link(s_ax, "My Draft") >>)
          @@ (Filepath(s_by) :> << >>),
      (Filepath(s_x) :> << GistFrontmatter, Link(s_ay, ""), Link(s_x, "") >>)
          @@ (Filepath(s_ay) :> << Link(s_x, "me") >>) }

\* Note names typed or selected by the user
Names == { EmptyStr, s_ax, s_ay, s_bx, s_by, s_X }

\* Editor contents
Contents ==
    { << >>,
      << Text("t"), Link(s_ax, "My Draft"), Link(s_bx, "") >> }

SaveIds == { s_ax, s_X }

\* Contents saved from the editor
SaveContents == Contents \cup { << GistFrontmatter, Text("t") >> }

DeleteIds == { s_x, s_ax, s_by }

\* Selections of notes to move
MoveInputs ==
    { << >>,
      << s_x >>, << s_ax >>, << s_ay >>, << s_by >>,
      << s_ax, s_ay >>, << s_ay, s_ax >>, << s_ax, s_ax >>,
      << s_ay, s_by >>, << s_x, s_ay >>, << s_by, s_ax >>,
      << s_by, s_ax, s_ay >> }

TargetFolders == { EmptyStr, s_a, s_b, s_X }

CurrentFolders == { EmptyStr, s_a }

FolderInputs == { << "a" >>, << " ", "B", " " >>, << "/" >>, << "a", "!" >> }

----------------------------------------------------------------------------
(* The state machine *)

NoCall ==
    [op |-> "none", id |-> EmptyStr, oldName |-> EmptyStr, newName |-> EmptyStr,
     content |-> << >>, noteIds |-> << >>, targetFolder |-> EmptyStr,
     currentFolder |-> EmptyStr, userInput |-> EmptyStr]

NoResult == [success |-> TRUE, reason |-> "none", moved |-> 0, skipped |-> << >>]

\* The result of an async handler whose awaited mirror call was rejected
Rejected == [NoResult EXCEPT !.success = FALSE, !.reason = "rejected"]

NoArg == << >>

Init ==
    /\ markdownFiles \in InitialFiles
    /\ virtualFolders = << >>
    /\ call = NoCall
    /\ result = NoResult
    /\ sent = << >>
    /\ snapshot = markdownFiles
    /\ prevFolders = << >>
    /\ queued = << >>
    /\ effects = << >>
    /\ nOps = 0
    /\ arg = NoArg
    /\ ret = NoArg

\* The model runs at most MaxOps handlers
MayRun == nOps < MaxOps

\* The frame every handler shares: what it read, and one more handler run
Ran ==
    /\ nOps' = nOps + 1
    /\ snapshot' = markdownFiles
    /\ prevFolders' = virtualFolders
    /\ markdownFiles' = ApplyEvents(markdownFiles, sent')
    /\ UNCHANGED << arg, ret >>

\* signedIn: githubUser and githubRepo are set; mirrorOk: the mirror call,
\* if made, is fulfilled rather than rejected
SaveNote(id, content, signedIn, mirrorOk) ==
    /\ MayRun
    /\ call' = [NoCall EXCEPT !.op = "save", !.id = id, !.content = content]
    /\ sent' = saveEvents(id, content)
    /\ virtualFolders' = saveFolders(virtualFolders, id)
    /\ effects' = saveEffects(content, signedIn)
    /\ result' = IF saveMirrors(content, signedIn) /\ ~mirrorOk
                 THEN Rejected ELSE NoResult
    /\ queued' = << >>
    /\ Ran

DeleteNote(id, signedIn, mirrorOk) ==
    /\ MayRun
    /\ call' = [NoCall EXCEPT !.op = "delete", !.id = id]
    /\ sent' = deleteEvents(markdownFiles, id, signedIn, mirrorOk)
    /\ virtualFolders' = virtualFolders
    /\ effects' = deleteEffects(markdownFiles, id, signedIn, mirrorOk)
    /\ result' = IF deleteMirrors(markdownFiles, id, signedIn) /\ ~mirrorOk
                 THEN Rejected ELSE NoResult
    /\ queued' = << >>
    /\ Ran

RenameNote(oldName, newName, content) ==
    /\ MayRun
    /\ \E reason \in { renameReason(markdownFiles, oldName, newName) } :
        /\ call' = [NoCall EXCEPT !.op = "rename", !.oldName = oldName,
                                  !.newName = newName, !.content = content]
        /\ sent' = renameEvents(reason, markdownFiles, oldName, newName, content)
        /\ virtualFolders' = renameFolders(virtualFolders, oldName, newName)
        /\ result' = [NoResult EXCEPT !.success = (reason = Success),
                                      !.reason = reason]
        /\ effects' = typesOf(sent')
        /\ queued' = << >>
        /\ Ran

MoveNotesToFolder(noteIds, targetFolder) ==
    /\ MayRun
    /\ \E moved \in { movedOf(markdownFiles, noteIds, targetFolder) },
       skipped \in { skippedOf(markdownFiles, noteIds, targetFolder) } :
        /\ call' = [NoCall EXCEPT !.op = "move", !.noteIds = noteIds,
                                  !.targetFolder = targetFolder]
        /\ sent' = moveEvents(markdownFiles, moved)
        /\ virtualFolders' = moveFolders(virtualFolders, moved)
        /\ result' = [NoResult EXCEPT !.reason = Success, !.moved = Len(moved),
                                      !.skipped = skipped]
        /\ effects' = typesOf(sent')
        /\ queued' = moved
        /\ Ran

CreateNewFolder(currentFolder, userInput) ==
    /\ MayRun
    /\ \E folderPath \in { folderPathOf(currentFolder, userInput) } :
        /\ call' = [NoCall EXCEPT !.op = "folder", !.currentFolder = currentFolder,
                                  !.userInput = userInput]
        /\ sent' = << >>
        /\ virtualFolders' = IF folderPath = NoFolder THEN virtualFolders
                             ELSE declareFolders(virtualFolders, folderPath)
        /\ effects' = IF folderPath = NoFolder THEN << >> ELSE << "navigate" >>
        /\ result' = NoResult
        /\ queued' = << >>
        /\ Ran

\* Nothing is written: the handler navigates to the new note's editor, and
\* call.id records where
CreateNewNote(currentFolder, userInput) ==
    /\ MayRun
    /\ \E noteId \in { newNoteIdOf(currentFolder, userInput) } :
        /\ call' = [NoCall EXCEPT !.op = "create", !.currentFolder = currentFolder,
                                  !.userInput = userInput,
                                  !.id = IF noteId = NoNote THEN EmptyStr ELSE noteId]
        /\ sent' = << >>
        /\ virtualFolders' = virtualFolders
        /\ effects' = IF noteId = NoNote THEN << >> ELSE << "navigate" >>
        /\ result' = NoResult
        /\ queued' = << >>
        /\ Ran

Next ==
    \/ \E id \in SaveIds, content \in SaveContents,
          signedIn \in BOOLEAN, mirrorOk \in BOOLEAN :
          SaveNote(id, content, signedIn, mirrorOk)
    \/ \E id \in DeleteIds, signedIn \in BOOLEAN, mirrorOk \in BOOLEAN :
          DeleteNote(id, signedIn, mirrorOk)
    \/ \E oldName \in Names, newName \in Names, content \in Contents :
          RenameNote(oldName, newName, content)
    \/ \E noteIds \in MoveInputs, targetFolder \in TargetFolders :
          MoveNotesToFolder(noteIds, targetFolder)
    \/ \E currentFolder \in CurrentFolders, userInput \in FolderInputs :
          CreateNewNote(currentFolder, userInput)
    \/ \E currentFolder \in CurrentFolders, userInput \in FolderInputs :
          CreateNewFolder(currentFolder, userInput)

Spec == Init /\ [][Next]_vars

----------------------------------------------------------------------------
(* Vocabulary of the properties *)

\* The note id of a storage key
IdOf(key) == SubSeq(key, 1, Len(key) - 1)

\* The batch the last handler emitted, when it emitted exactly one
Batch == sent[1].markdownFiles

\* The note ids referred to anywhere in a file set
ReferencedIn(files) == UNION { Refs(files[k]) : k \in DOMAIN files }

\* Every reference of the file set names a note of the file set
Consistent(files) == \A id \in ReferencedIn(files) : Filepath(id) \in DOMAIN files

\* The proper ancestor folder paths of a note id, by its segments
Ancestors(id) ==
    { p \in { SubSeq(id, 1, n) : n \in 0..Len(id) } :
        /\ Len(p) < Len(id)
        /\ id[Len(p) + 1] = "/" }

QueuedOldIds == { queued[i].oldId : i \in DOMAIN queued }

QueuedNewIds == { queued[i].newId : i \in DOMAIN queued }

RenameSucceeded == call.op = "rename" /\ result.success

RenameFailed == call.op = "rename" /\ ~result.success

MoveQueued == call.op = "move" /\ queued # << >>

\* The content c with every reference to old naming new instead
Renamed(c, old, new) ==
    [i \in DOMAIN c |->
        IF c[i].kind = "link" /\ c[i].id = old THEN Link(new, c[i].alias) ELSE c[i]]

\* The segment after the last slash of an id
LastSegment(id) ==
    LET slashes == { i \in DOMAIN id : id[i] = "/" }
        from    == IF slashes = {} THEN 1
                   ELSE (CHOOSE i \in slashes : \A j \in slashes : j <= i) + 1
    IN  SubSeq(id, from, Len(id))

\* The destination of id in folder: folder/basename, or basename at the root
Destination(id, folder) ==
    IF folder = EmptyStr THEN LastSegment(id)
    ELSE folder \o << "/" >> \o LastSegment(id)

\* How moveMany is to treat one input id, given the file set it reads
Verdict(files, id, folder) ==
    IF Filepath(id) \notin DOMAIN files THEN "skipped"
    ELSE IF Destination(id, folder) = id THEN "omitted"
    ELSE IF \/ ~isValidNoteId(Destination(id, folder))
            \/ Filepath(Destination(id, folder)) \in DOMAIN files
    THEN "skipped"
    ELSE "queued"

\* The inputs of the last move with the given verdict, in input order
InputsWith(verdict) ==
    LET Test(id) == Verdict(snapshot, id, call.targetFolder) = verdict
    IN  SelectSeq(call.noteIds, Test)

----------------------------------------------------------------------------
(* Claims *)

\* C1: after the batch of a moveMany that queued at least one move is
\* applied to the snapshot it was computed from, no file of the resulting
\* file set refers to a queued old id, when the references of the snapshot
\* were consistent.
C1_NoReferenceToQueuedOldId ==
    (MoveQueued /\ Consistent(snapshot)) =>
        ReferencedIn(ApplyEvents(snapshot, sent)) \cap QueuedOldIds = {}

\* C2: a successful rename emits exactly one batch; every other snapshot file
\* that refers to oldId is in it with the reference rewritten, no other
\* snapshot file is in it, newId's key holds the supplied content rewritten
\* for self-references, oldId's key is a tombstone iff it was in the snapshot,
\* and no file refers to oldId once the batch is applied.
C2_RenameBatch ==
    RenameSucceeded =>
        LET old   == call.oldName
            new   == call.newName
            oldFp == Filepath(old)
            newFp == Filepath(new)
            other == DOMAIN snapshot \ { oldFp, newFp }
        IN  /\ Len(sent) = 1
            /\ sent[1].type = "WRITE_FILES"
            /\ \A k \in DOMAIN snapshot \ { oldFp } :
                  old \in Refs(snapshot[k]) =>
                      /\ k \in DOMAIN Batch
                      /\ Batch[k] = Write(Renamed(snapshot[k], old, new))
            /\ \A k \in other :
                  old \notin Refs(snapshot[k]) => k \notin DOMAIN Batch
            /\ DOMAIN Batch \subseteq DOMAIN snapshot \cup { newFp }
            /\ newFp \in DOMAIN Batch
            /\ Batch[newFp] = Write(Renamed(call.content, old, new))
            /\ (oldFp \in DOMAIN Batch) <=> (oldFp \in DOMAIN snapshot)
            /\ oldFp \in DOMAIN Batch => Batch[oldFp] = Tombstone
            /\ markdownFiles = ApplyBatch(snapshot, Batch)
            /\ old \notin ReferencedIn(markdownFiles)

\* A rename of an existing note that another note refers to with an alias
\* and that refers to itself succeeded.
C2_Witness ==
    /\ RenameSucceeded
    /\ Filepath(call.oldName) \in DOMAIN snapshot
    /\ call.oldName \in Refs(call.content)
    /\ \E k \in DOMAIN snapshot \ { Filepath(call.oldName) } :
          /\ \E i \in DOMAIN snapshot[k] :
                /\ snapshot[k][i] = Link(call.oldName, "My Draft")
                /\ markdownFiles[k][i] = Link(call.newName, "My Draft")
    /\ \E k \in DOMAIN snapshot \ { Filepath(call.oldName) } : k \notin DOMAIN Batch

\* C3: after every successful rename and every moveMany that queued a move,
\* every ancestor folder path of each newly introduced note id is absent
\* from the virtual-folder ledger.
C3_NewIdsReconciled ==
    /\ RenameSucceeded => Ancestors(call.newName) \cap Range(virtualFolders) = {}
    /\ MoveQueued =>
          \A id \in QueuedNewIds : Ancestors(id) \cap Range(virtualFolders) = {}

\* C4: no entry of the virtual-folder ledger is an ancestor folder path of a
\* note of the file set.
C4_NoVirtualFolderHoldsANote ==
    \A k \in DOMAIN markdownFiles :
        Ancestors(IdOf(k)) \cap Range(virtualFolders) = {}

\* C5: rename returns Failure(duplicate) whenever oldId and newId are
\* non-empty and different, newId is valid and the snapshot has a file at
\* newId's key, whatever its content; that file is not overwritten.
C5_DuplicateWheneverOccupied ==
    ( /\ call.op = "rename"
      /\ call.oldName # EmptyStr
      /\ call.newName # EmptyStr
      /\ call.oldName # call.newName
      /\ isValidNoteId(call.newName)
      /\ Filepath(call.newName) \in DOMAIN snapshot ) =>
        /\ result.reason = "duplicate"
        /\ Filepath(call.newName) \in DOMAIN markdownFiles
        /\ markdownFiles[Filepath(call.newName)] = snapshot[Filepath(call.newName)]

\* C6: rename classifies in a fixed precedence: no-op when oldId is empty,
\* newId is empty or the two are equal; otherwise invalid when newId is not a
\* valid note id; otherwise duplicate or success.  The validity of oldId
\* plays no part.
C6_RenamePrecedence ==
    call.op = "rename" =>
        /\ result.success <=> (result.reason = Success)
        /\ IF \/ call.oldName = EmptyStr
              \/ call.newName = EmptyStr
              \/ call.oldName = call.newName
           THEN result.reason = "no-op"
           ELSE IF ~isValidNoteId(call.newName)
           THEN result.reason = "invalid"
           ELSE result.reason \in { "duplicate", Success }

\* A rename to an invalid name whose key holds a non-empty file was
\* classified invalid.
C6_Witness ==
    /\ call.op = "rename"
    /\ call.oldName # EmptyStr
    /\ call.oldName # call.newName
    /\ ~isValidNoteId(call.newName)
    /\ Filepath(call.newName) \in DOMAIN snapshot
    /\ snapshot[Filepath(call.newName)] # << >>
    /\ result.reason = "invalid"

\* C7: a rename that returns a failure emits no batch and leaves the file
\* set and the virtual-folder ledger as they were.
C7_FailedRenameChangesNothing ==
    RenameFailed =>
        /\ sent = << >>
        /\ markdownFiles = snapshot
        /\ virtualFolders = prevFolders

\* A rename onto an occupied key failed as a duplicate while the ledger held
\* a folder and another note referred to the old id.
C7_Witness ==
    /\ RenameFailed
    /\ result.reason = "duplicate"
    /\ virtualFolders # << >>
    /\ call.oldName \in ReferencedIn(snapshot)

\* C8: moveMany classifies each input id on its own against the snapshot, in
\* input order: absent source, skipped; destination equal to the id,
\* omitted; destination invalid or occupied, skipped; otherwise queued with
\* the destination targetFolder/basename.  The result is always a success.
C8_MoveClassification ==
    call.op = "move" =>
        /\ result.success
        /\ result.skipped = InputsWith("skipped")
        /\ [i \in DOMAIN queued |-> queued[i].oldId] = InputsWith("queued")
        /\ \A i \in DOMAIN queued :
              /\ queued[i].newId = Destination(queued[i].oldId, call.targetFolder)
              /\ queued[i].content = snapshot[Filepath(queued[i].oldId)]
        /\ result.moved = Len(InputsWith("queued"))

\* Moving a/x and a/y to b where b/y exists moved one note and skipped a/y.
C8_Witness ==
    /\ call.op = "move"
    /\ call.noteIds = << s_ax, s_ay >>
    /\ call.targetFolder = s_b
    /\ Filepath(s_by) \in DOMAIN snapshot
    /\ result.moved = 1
    /\ result.skipped = << s_ay >>
    /\ Filepath(s_bx) \in DOMAIN markdownFiles
    /\ Filepath(s_ay) \in DOMAIN markdownFiles

\* seq is sub with elements left out, the order kept
RECURSIVE IsSubsequence(_, _)
IsSubsequence(sub, seq) ==
    IF sub = << >> THEN TRUE
    ELSE IF seq = << >> THEN FALSE
    ELSE IF sub[1] = seq[1] THEN IsSubsequence(Tail(sub), Tail(seq))
    ELSE IsSubsequence(sub, Tail(seq))

\* The positions of the inputs of the last move omitted as no-ops
OmittedInputs ==
    { i \in DOMAIN call.noteIds :
        /\ Filepath(call.noteIds[i]) \in DOMAIN snapshot
        /\ Destination(call.noteIds[i], call.targetFolder) = call.noteIds[i] }

\* C9: moved + |skipped| equals the number of input ids minus the number
\* omitted as no-ops, and skipped lists ids in input order.
C9_MoveCount ==
    call.op = "move" =>
        /\ result.moved + Len(result.skipped)
              = Len(call.noteIds) - Cardinality(OmittedInputs)
        /\ IsSubsequence(result.skipped, call.noteIds)

\* A move of two ids omitted one as a no-op and skipped the other.
C9_Witness ==
    /\ call.op = "move"
    /\ Len(call.noteIds) = 2
    /\ Cardinality(OmittedInputs) = 1
    /\ Len(result.skipped) = 1
    /\ result.moved = 0

\* C10: a moveMany that queues no move returns success with moved = 0 and
\* the skip list, emits no batch and leaves the file set and the ledger as
\* they were; one that queues a move emits exactly one batch.
C10_EmptyMoveChangesNothing ==
    call.op = "move" =>
        IF InputsWith("queued") = << >>
        THEN /\ result.success
             /\ result.moved = 0
             /\ result.skipped = InputsWith("skipped")
             /\ sent = << >>
             /\ markdownFiles = snapshot
             /\ virtualFolders = prevFolders
        ELSE /\ Len(sent) = 1
             /\ sent[1].type = "WRITE_FILES"

\* A move whose inputs were all skipped or omitted ran while the ledger held
\* an ancestor folder of an input.
C10_Witness ==
    /\ call.op = "move"
    /\ InputsWith("queued") = << >>
    /\ InputsWith("skipped") # << >>
    /\ InputsWith("omitted") # << >>
    /\ \E i \in DOMAIN call.noteIds :
          Ancestors(call.noteIds[i]) \cap Range(virtualFolders) # {}

----------------------------------------------------------------------------
(* Mirroring to the snippet host *)

CoreMutations == { "WRITE_FILES", "DELETE_FILE" }

MirrorCalls == { "updateGist", "deleteGist" }

\* C11: when save or delete invokes the mirror service, the core file
\* mutation was queued before that call, so that a failing mirror call
\* cannot keep it from being queued.
C11_CoreMutationBeforeMirror ==
    call.op \in { "save", "delete" } =>
        \A j \in DOMAIN effects :
            effects[j] \in MirrorCalls =>
                \E i \in 1..(j - 1) : effects[i] \in CoreMutations

----------------------------------------------------------------------------
(* Validation before writing *)

\* The keys the last handler's events give content to and that did not
\* exist before it ran
IntroducedKeys ==
    { k \in UNION { DOMAIN sent[i].markdownFiles : i \in DOMAIN sent } :
        /\ k \notin DOMAIN snapshot
        /\ \E i \in DOMAIN sent :
              /\ k \in DOMAIN sent[i].markdownFiles
              /\ sent[i].markdownFiles[k] # Tombstone }

\* C12: every key that an emitted batch newly introduces with content
\* carries a valid NoteId, the note a create navigates to has a valid NoteId,
\* and every entry of the ledger is a valid NoteId.
C12_OnlyValidIdsIntroduced ==
    /\ \A k \in IntroducedKeys : isValidNoteId(IdOf(k))
    /\ call.op = "create" /\ effects # << >> => isValidNoteId(call.id)
    /\ \A i \in DOMAIN virtualFolders : isValidNoteId(virtualFolders[i])

----------------------------------------------------------------------------
(* The slug engine on its own *)

\* Some punctuation, as a user may type it
Punctuation == { "!" }

\* The characters of the texts handed to toSlug
SlugAlphabet == { "a", "A", "0", " ", "-", "/" } \cup Punctuation

RECURSIVE TextsUpTo(_)
TextsUpTo(n) ==
    IF n = 0 THEN { << >> }
    ELSE LET shorter == TextsUpTo(n - 1)
         IN  shorter \cup { Append(t, c) : t \in shorter, c \in SlugAlphabet }

\* No handler has run and none will
Quiet ==
    /\ markdownFiles = [k \in {} |-> << >>]
    /\ virtualFolders = << >>
    /\ call = NoCall
    /\ result = NoResult
    /\ sent = << >>
    /\ snapshot = markdownFiles
    /\ prevFolders = << >>
    /\ queued = << >>
    /\ effects = << >>
    /\ nOps = 0

StayQuiet ==
    UNCHANGED << markdownFiles, virtualFolders, call, result, sent, snapshot,
                 prevFolders, queued, effects, nOps >>

InitSlug ==
    /\ Quiet
    /\ arg \in TextsUpTo(MaxSlugLen)
    /\ ret = NoArg

Slugify ==
    /\ ret = NoArg
    /\ ret' = [slug |-> toSlug(arg)]
    /\ arg' = arg
    /\ StayQuiet

NextSlug == Slugify

SpecSlug == InitSlug /\ [][NextSlug]_vars

Slugified == ret # NoArg

\* C13 as stated: for every text, punctuation included, a non-empty slug is
\* a valid NoteId.
C13_SlugIsValid ==
    Slugified /\ Truthy(ret.slug) => isValidNoteId(ret.slug)

\* C13 amended: for every text of letters of both cases, digits, spaces,
\* dashes and slashes, a non-empty slug is a valid NoteId.
C13_SlugOfPlainTextIsValid ==
    /\ Slugified
    /\ \A i \in DOMAIN arg : arg[i] \notin Punctuation
    /\ Truthy(ret.slug)
    => isValidNoteId(ret.slug)

\* An upper-case letter, a space next to a dash and a slash, slugified to a
\* two-segment id
C13_Witness ==
    /\ Slugified
    /\ arg = << "A", " ", "-", "/", "0" >> \/ arg = << "A", "-", "/", "0" >>
    /\ ret.slug = << "a", "/", "0" >>

----------------------------------------------------------------------------
(* Tag aggregator: sortedTagFrequencies of the note list *)

RECURSIVE flatMap(_)
\* childNotes.flatMap((result) => result.tags)
flatMap(childNotes) ==
    IF childNotes = << >> THEN << >>
    ELSE Head(childNotes) \o flatMap(Tail(childNotes))

\* frequencyMap.set(tag, (frequencyMap.get(tag) ?? 0) + 1) on a Map, whose
\* entries keep the order in which their keys were first set
countTag(entries, tag) ==
    IF \E i \in DOMAIN entries : entries[i].tag = tag
    THEN [i \in DOMAIN entries |->
            IF entries[i].tag = tag
            THEN [entries[i] EXCEPT !.frequency = @ + 1] ELSE entries[i]]
    ELSE Append(entries, [tag |-> tag, frequency |-> 1])

RECURSIVE countTags(_, _)
countTags(entries, tags) ==
    IF tags = << >> THEN entries
    ELSE countTags(countTag(entries, Head(tags)), Tail(tags))

\* [...frequencyMap.entries()]
frequencyEntries(childNotes) == countTags(<< >>, flatMap(childNotes))

\* Mutant of belowAll: a tag carried by every note stays
belowAllKept(entries, childNotes) == entries

\* .filter(([, frequency]) => frequency < childNotes.length)
belowAll(entries, childNotes) ==
    LET keep(entry) == entry.frequency < Len(childNotes)
    IN  SelectSeq(entries, keep)

\* The entries of the other tags that start with tag
childTags(entries, tag) ==
    LET child(other) == other.tag # tag /\ startsWith(other.tag, tag)
    IN  SelectSeq(entries, child)

\* The second filter: a parent tag goes when all its child tags have its
\* frequency; the child tags are looked up among all the entries
notRedundant(kept, entries) ==
    LET keep(entry) ==
            LET children == childTags(entries, entry.tag)
            IN  \/ Len(children) = 0
                \/ ~ \A i \in DOMAIN children :
                        children[i].frequency = entry.frequency
    IN  SelectSeq(kept, keep)

RECURSIVE insertByFrequency(_, _)
\* Where a stable sort on b[1] - a[1] puts an entry that came after sorted
insertByFrequency(sorted, entry) ==
    IF sorted = << >> THEN << entry >>
    ELSE LET last == sorted[Len(sorted)]
         IN  IF last.frequency >= entry.frequency THEN Append(sorted, entry)
             ELSE Append(insertByFrequency(SubSeq(sorted, 1, Len(sorted) - 1), entry),
                         last)

RECURSIVE sortByFrequency(_)
\* .sort((a, b) => b[1] - a[1])
sortByFrequency(entries) ==
    IF entries = << >> THEN << >>
    ELSE insertByFrequency(sortByFrequency(SubSeq(entries, 1, Len(entries) - 1)),
                           entries[Len(entries)])

sortedTagFrequencies(childNotes) ==
    LET entries == frequencyEntries(childNotes)
    IN  sortByFrequency(notRedundant(belowAll(entries, childNotes), entries))

s_xy == << "x", "/", "y" >>

\* The tag lists a note of the result set may carry
TagLists ==
    { << >>, << s_x >>, << s_xy >>, << s_y >>, << s_x, s_xy >>, << s_xy, s_x >>,
      << s_x, s_x >>, << s_x, s_y >> }

RECURSIVE ResultSetsUpTo(_)
ResultSetsUpTo(n) ==
    IF n = 0 THEN { << >> }
    ELSE LET smaller == ResultSetsUpTo(n - 1)
         IN  smaller \cup { Append(r, tags) : r \in smaller, tags \in TagLists }

InitTags ==
    /\ Quiet
    /\ arg \in ResultSetsUpTo(MaxNotes)
    /\ ret = NoArg

Aggregate ==
    /\ ret = NoArg
    /\ ret' = [entries |-> frequencyEntries(arg), cloud |-> sortedTagFrequencies(arg)]
    /\ arg' = arg
    /\ StayQuiet

NextTags == Aggregate

SpecTags == InitTags /\ [][NextTags]_vars

Aggregated == ret # NoArg

\* The result set { n1: [x, x/y], n2: [x] }
SharedParent == << << s_x, s_xy >>, << s_x >> >>

InCloud(tag) == \E i \in DOMAIN ret.cloud : ret.cloud[i].tag = tag

\* C14 as stated: for { n1: [x, x/y], n2: [x] } the tag cloud keeps x with
\* count 2.
C14_SharedParentKept ==
    Aggregated /\ arg = SharedParent =>
        \E i \in DOMAIN ret.cloud :
            ret.cloud[i] = [tag |-> s_x, frequency |-> 2]

\* C14 amended: for { n1: [x, x/y], n2: [x] } the tag cloud drops x, whose
\* count 2 equals the number of notes although its only descendant x/y has
\* another count, and shows x/y with count 1 alone.
C14_SharedParentDropped ==
    Aggregated /\ arg = SharedParent =>
        /\ ret.entries = << [tag |-> s_x, frequency |-> 2],
                            [tag |-> s_xy, frequency |-> 1] >>
        /\ ~InCloud(s_x)
        /\ ret.cloud = << [tag |-> s_xy, frequency |-> 1] >>

C14_Witness ==
    Aggregated /\ arg = SharedParent /\ InCloud(s_xy)

\* The notes of the result set whose tag list contains the tag
Carrying(tag) == { i \in DOMAIN arg : includes(arg[i], tag) }

\* C15: the count reported for a tag is the number of notes of the result
\* set whose tag list contains it, however often a list repeats it.
C15_CountIsNumberOfNotes ==
    Aggregated =>
        /\ \A i \in DOMAIN ret.entries :
              ret.entries[i].frequency = Cardinality(Carrying(ret.entries[i].tag))
        /\ \A i \in DOMAIN ret.cloud :
              ret.cloud[i].frequency = Cardinality(Carrying(ret.cloud[i].tag))

\* The count the aggregator has for a tag it counted
CountOf(tag) ==
    LET i == CHOOSE i \in DOMAIN ret.entries : ret.entries[i].tag = tag
    IN  ret.entries[i].frequency

Counted == { ret.entries[i].tag : i \in DOMAIN ret.entries }

Descendants(tag) == { other \in Counted : other # tag /\ startsWith(other, tag) }

\* C16: a tag is in the cloud exactly when its count differs from the number
\* of notes and it is not so that it has descendants among the counted tags
\* which all have its count.
C16_CloudMembership ==
    Aggregated =>
        \A tag \in Counted :
            InCloud(tag) <=>
                /\ CountOf(tag) # Len(arg)
                /\ ~ /\ Descendants(tag) # {}
                     /\ \A other \in Descendants(tag) : CountOf(other) = CountOf(tag)

----------------------------------------------------------------------------
(* The virtual folder ledger *)

\* The code unit of a character of a path
CodeUnit(c) ==
    CASE c = "-" -> 45
      [] c = "/" -> 47
      [] c = "0" -> 48
      [] c = "1" -> 49
      [] c = "a" -> 97
      [] c = "b" -> 98
      [] c = "x" -> 120
      [] c = "y" -> 121

RECURSIVE Below(_, _)
\* a comes strictly before b, code unit by code unit
Below(a, b) ==
    IF b = << >> THEN FALSE
    ELSE IF a = << >> THEN TRUE
    ELSE IF a[1] = b[1] THEN Below(Tail(a), Tail(b))
    ELSE CodeUnit(a[1]) < CodeUnit(b[1])

\* The path the last call asked to declare
Declared == folderPathOf(call.currentFolder, call.userInput)

\* C17: after any declare-folder, save or move (or any other handler), from
\* an empty ledger, the ledger is strictly ascending, hence free of
\* duplicates, and declaring a path it already holds leaves it unchanged.
C17_LedgerAscending ==
    /\ \A i, j \in DOMAIN virtualFolders :
          i < j => Below(virtualFolders[i], virtualFolders[j])
    /\ call.op = "folder" /\ includes(prevFolders, Declared)
          => virtualFolders = prevFolders

\* A declared path that had to go in front of the one already there
C17_Witness ==
    /\ call.op = "folder"
    /\ Len(prevFolders) >= 1
    /\ Declared # NoFolder
    /\ ~includes(prevFolders, Declared)
    /\ Below(Declared, prevFolders[1])
    /\ virtualFolders = << Declared >> \o prevFolders

----------------------------------------------------------------------------
(* Saving into a ledger that already holds folders *)

s_aa == << "a", "/", "a" >>
s_ab == << "a", "/", "b" >>
s_abx == << "a", "/", "b", "/", "x" >>

\* The folder paths declared before the saves
LedgerPaths == { s_a, s_aa, s_ab, s_abx, s_b }

RECURSIVE LedgerOf(_)
\* The ledger after declaring the paths of S, in any order
LedgerOf(S) ==
    IF S = {} THEN << >>
    ELSE LET first == CHOOSE p \in S :
                          \A q \in S \ {p} : localeCompareLess(p, q)
         IN  << first >> \o LedgerOf(S \ {first})

LedgerSaveIds == { s_x, s_ax, s_ab, s_abx }

InitLedger ==
    /\ markdownFiles = [k \in {} |-> << >>]
    /\ virtualFolders \in { LedgerOf(S) : S \in SUBSET LedgerPaths }
    /\ call = NoCall
    /\ result = NoResult
    /\ sent = << >>
    /\ snapshot = markdownFiles
    /\ prevFolders = virtualFolders
    /\ queued = << >>
    /\ effects = << >>
    /\ nOps = 0
    /\ arg = NoArg
    /\ ret = NoArg

NextLedger ==
    \E id \in LedgerSaveIds, content \in { << >> } : SaveNote(id, content, FALSE, TRUE)

SpecLedger == InitLedger /\ [][NextLedger]_vars

\* C18: a save of s takes from the ledger exactly the proper ancestor folder
\* paths of s and keeps every other entry, s itself included, in its place
\* and order; a save at the root keeps the ledger as it is; reconciling
\* again for the same s changes nothing more.
C18_SaveRemovesAncestorsOnly ==
    call.op = "save" =>
        LET stays(path) == path \notin Ancestors(call.id)
        IN  /\ virtualFolders = SelectSeq(prevFolders, stays)
            /\ \A i \in DOMAIN prevFolders :
                  includes(virtualFolders, prevFolders[i])
                      <=> prevFolders[i] \notin Ancestors(call.id)
            /\ ~includes(call.id, "/") => virtualFolders = prevFolders
            /\ saveFolders(virtualFolders, call.id) = virtualFolders

\* A save of a/b/x into a ledger holding its two ancestors, a sibling
\* folder, another root folder and a/b/x itself
C18_Witness ==
    /\ call.op = "save"
    /\ call.id = s_abx
    /\ prevFolders = << s_a, s_aa, s_ab, s_abx, s_b >>
    /\ virtualFolders = << s_aa, s_abx, s_b >>

----------------------------------------------------------------------------
(* Renaming there and back *)

\* File sets to rename in; some hold references to notes that do not exist
RoundTripFiles ==
    InitialFiles \cup
    { (Filepath(s_ax) :> << Link(s_bx, "") >>) @@
      (Filepath(s_ay) :> << Link(s_ax, ""), Link(s_bx, "see") >>),
      (Filepath(s_x) :> << Link(s_x, ""), Text("t") >>) @@
      (Filepath(s_by) :> << Link(s_x, "") >>),
      (Filepath(s_ax) :> << Text("t") >>) @@
      (Filepath(s_x) :> << Link(s_y, "") >>) }

RoundTripNames == { s_x, s_y, s_b, s_ax, s_ay, s_bx, s_by }

\* arg holds the two names and the file set before the first rename: a
\* exists in it and b does not
InitRoundTrip ==
    /\ markdownFiles \in RoundTripFiles
    /\ virtualFolders = << >>
    /\ call = NoCall
    /\ result = NoResult
    /\ sent = << >>
    /\ snapshot = markdownFiles
    /\ prevFolders = << >>
    /\ queued = << >>
    /\ effects = << >>
    /\ nOps = 0
    /\ arg \in { [a |-> a, b |-> b, files |-> markdownFiles] :
                   a \in { n \in RoundTripNames : Filepath(n) \in DOMAIN markdownFiles },
                   b \in { n \in RoundTripNames : Filepath(n) \notin DOMAIN markdownFiles } }
    /\ ret = NoArg

\* rename a to b, with the content of a
Forth ==
    /\ nOps = 0
    /\ RenameNote(arg.a, arg.b, markdownFiles[Filepath(arg.a)])

\* rename b to a, with the same content
Back ==
    /\ nOps = 1
    /\ RenameNote(arg.b, arg.a, call.content)

NextRoundTrip == Forth \/ Back

SpecRoundTrip == InitRoundTrip /\ [][NextRoundTrip]_vars

WentForth == nOps >= 1

WentBack == nOps >= 2

\* C19 as stated: renaming a to b and b to a with the same content gives the
\* original file set back, keys and contents, also when a file referred to b
\* before the first rename.
C19_RoundTrip ==
    /\ WentForth => result.success
    /\ WentBack => markdownFiles = arg.files

\* C19 amended: renaming a to b and b to a with the same content succeeds
\* both times and gives the original file set back, keys and contents,
\* provided no file referred to b before the first rename.
C19_RoundTripWithoutReferenceToNew ==
    arg.b \notin ReferencedIn(arg.files) =>
        /\ WentForth => result.success
        /\ WentBack => markdownFiles = arg.files

\* Back from a rename that rewrote references in other files and in the
\* renamed note itself
C19_Witness ==
    /\ WentBack
    /\ arg.b \notin ReferencedIn(arg.files)
    /\ arg.a \in Refs(arg.files[Filepath(arg.a)])
    /\ \E k \in DOMAIN arg.files : k # Filepath(arg.a) /\ arg.a \in Refs(arg.files[k])
    /\ markdownFiles = arg.files

----------------------------------------------------------------------------
(* Destinations of one moveMany call *)

\* C20: the moves one moveMany call queues have pairwise distinct
\* destinations, so the batch keeps the number of notes and every moved
\* note's content is found under its new key.
C20_DistinctDestinations ==
    call.op = "move" =>
        /\ \A i, j \in DOMAIN queued :
              i # j => queued[i].newId # queued[j].newId
        /\ Cardinality(DOMAIN markdownFiles) = Cardinality(DOMAIN snapshot)
        /\ \A i \in DOMAIN queued :
              /\ Filepath(queued[i].newId) \in DOMAIN markdownFiles
              /\ markdownFiles[Filepath(queued[i].newId)] =
                     updateWikilinks(snapshot[Filepath(queued[i].oldId)],
                                     queued[i].oldId, queued[i].newId)

----------------------------------------------------------------------------
(* The shape of a moveMany batch *)

QueuedOldKeys == { Filepath(id) : id \in QueuedOldIds }

QueuedNewKeys == { Filepath(id) : id \in QueuedNewIds }

\* C21: in the batch of a moveMany call every queued old key is marked for
\* deletion, also when the rewriting pass had recorded content for it, every
\* queued new key carries content, and no key is the destination of one
\* queued move and the source of another.
C21_MoveBatchShape ==
    MoveQueued =>
        /\ Len(sent) = 1
        /\ \A k \in QueuedOldKeys : k \in DOMAIN Batch /\ Batch[k] = Tombstone
        /\ \A k \in QueuedNewKeys : k \in DOMAIN Batch /\ ~Batch[k].del
        /\ QueuedOldKeys \cap QueuedNewKeys = {}

\* Two notes moved together, one of which refers to the other, so that the
\* rewriting pass had content to record for a queued old key
C21_Witness ==
    /\ MoveQueued
    /\ Len(sent) = 1
    /\ \E i, j \in DOMAIN queued :
          /\ i # j
          /\ queued[i].newId # queued[j].newId
          /\ queued[j].oldId \in Refs(snapshot[Filepath(queued[i].oldId)])
          /\ Batch[Filepath(queued[i].oldId)] = Tombstone

====
